---- MODULE Spec2Model ----
(***************************************************************************)
(* Forward-chaining inference engine of src/week7/Unification.py and       *)
(* src/week8/fol.py.  A fact, a premise and a conclusion are Python        *)
(* strings; a string is modelled as the sequence of its characters, each   *)
(* character a one-character string.  A substitution (a dict) is a         *)
(* function from strings to strings.                                       *)
(***************************************************************************)
EXTENDS Integers, Sequences, FiniteSets, TLC

(***************************************************************************)
(* Characters                                                              *)
(***************************************************************************)
\* Characters are those of code points 0 to 255.
\* str.islower(): the letters a-z, the ordinal indicators, the micro sign
\* and the lowercase letters with diacritics
LowerChars ==
    {"a", "b", "c", "d", "e", "f", "g", "h", "i", "j", "k", "l", "m",
     "n", "o", "p", "q", "r", "s", "t", "u", "v", "w", "x", "y", "z",
     "ª", "µ", "º", "ß", "à", "á", "â", "ã", "ä", "å", "æ", "ç", "è",
     "é", "ê", "ë", "ì", "í", "î", "ï", "ð", "ñ", "ò", "ó", "ô", "õ",
     "ö", "ø", "ù", "ú", "û", "ü", "ý", "þ", "ÿ"}

UpperChars ==
    {"A", "B", "C", "D", "E", "F", "G", "H", "I", "J", "K", "L", "M",
     "N", "O", "P", "Q", "R", "S", "T", "U", "V", "W", "X", "Y", "Z",
     "À", "Á", "Â", "Ã", "Ä", "Å", "Æ", "Ç", "È", "É", "Ê", "Ë", "Ì",
     "Í", "Î", "Ï", "Ð", "Ñ", "Ò", "Ó", "Ô", "Õ", "Ö", "Ø", "Ù", "Ú",
     "Û", "Ü", "Ý", "Þ"}

DigitChars == {"0", "1", "2", "3", "4", "5", "6", "7", "8", "9"}

\* the superscript digits and the fractions, alphanumeric as well
NumericChars == {"²", "³", "¹", "¼", "½", "¾"}

\* the class \w of the regular expression (a str pattern: the Unicode class)
WordChars ==
    LowerChars \cup UpperChars \cup DigitChars \cup NumericChars \cup {"_"}

\* what str.strip() removes: the characters of str.isspace() (space, tab,
\* line feed, vertical tab, form feed, carriage return, the separators
\* FS, GS, RS and US, next line, no-break space)
Whitespace ==
    {"\t", "\n", "", "\f", "\r", "", "", "", "", " ", "", " "}

(***************************************************************************)
(* String helpers                                                          *)
(***************************************************************************)
\* s[a..b], empty when a > b
Slice(s, a, b) == [i \in 1..(b - a + 1) |-> s[a + i - 1]]

\* length of the longest prefix of s made of word characters
RECURSIVE WordPrefixLen(_)
WordPrefixLen(s) ==
    IF s = << >> \/ Head(s) \notin WordChars
    THEN 0
    ELSE 1 + WordPrefixLen(Tail(s))

\* position of the first occurrence of character c in s at or after from, 0 if none
RECURSIVE IndexFrom(_, _, _)
IndexFrom(s, c, from) ==
    IF from > Len(s) THEN 0
    ELSE IF s[from] = c THEN from
    ELSE IndexFrom(s, c, from + 1)

\* split(',') left out: the argument text taken as one piece
SplitOmitted(s) == << s >>

\* str.split(','): the pieces between the commas, at least one piece
RECURSIVE SplitComma(_)
SplitComma(s) ==
    LET k == IndexFrom(s, ",", 1)
    IN  IF k = 0 THEN << s >>
        ELSE << Slice(s, 1, k - 1) >> \o SplitComma(Slice(s, k + 1, Len(s)))

RECURSIVE LStrip(_)
LStrip(s) ==
    IF s # << >> /\ Head(s) \in Whitespace THEN LStrip(Tail(s)) ELSE s

RECURSIVE RStrip(_)
RStrip(s) ==
    IF s # << >> /\ s[Len(s)] \in Whitespace
    THEN RStrip(Slice(s, 1, Len(s) - 1))
    ELSE s

\* strip() left out
StripOmitted(s) == s

\* str.strip()
Strip(s) == RStrip(LStrip(s))

\* ','.join(parts)
RECURSIVE JoinComma(_)
JoinComma(parts) ==
    IF parts = << >> THEN << >>
    ELSE IF Len(parts) = 1 THEN parts[1]
    ELSE parts[1] \o << "," >> \o JoinComma(Tail(parts))

(***************************************************************************)
(* parse_fact: re.match(r"(\w+)\((.*?)\)", fact_string).  The match starts *)
(* at the first character: one or more word characters, "(", then the     *)
(* shortest run of characters other than newline that is followed by ")".  *)
(* The result is the pair <<predicate, args>>.                             *)
(***************************************************************************)
ParseFact(fact_string) ==
    LET w     == WordPrefixLen(fact_string)
        close == IndexFrom(fact_string, ")", w + 2)
        match == /\ w >= 1
                 /\ Len(fact_string) > w
                 /\ fact_string[w + 1] = "("
                 /\ close # 0
                 /\ \A i \in (w + 2)..(close - 1) : fact_string[i] # "\n"
        args_str == Slice(fact_string, w + 2, close - 1)
        pieces   == SplitComma(args_str)
    IN  IF ~match THEN << fact_string, << >> >>
        ELSE IF args_str = << >> THEN << Slice(fact_string, 1, w), << >> >>
        ELSE << Slice(fact_string, 1, w),
                [i \in 1..Len(pieces) |-> Strip(pieces[i])] >>

\* is_variable: term[0].islower()
is_variable(term) == term[1] \in LowerChars

\* dict.get(key, default)
Get(sub, key, default) == IF key \in DOMAIN sub THEN sub[key] ELSE default

\* sub[key] = value on a copy of sub
Put(sub, key, value) ==
    [k \in (DOMAIN sub) \cup {key} |-> IF k = key THEN value ELSE sub[k]]

\* the empty dict {}
EmptySub == << >>

\* the bindings not applied: the template returned as the fact
SubstitutionNotApplied(fact_template, sub) == fact_template

(***************************************************************************)
(* apply_substitution: one dict lookup per argument, rendered without      *)
(* spaces; a template with no arguments renders as the bare predicate.     *)
(***************************************************************************)
apply_substitution(fact_template, sub) ==
    LET parsed == ParseFact(fact_template)
        pred   == parsed[1]
        args   == parsed[2]
        new_args == [i \in 1..Len(args) |-> Get(sub, args[i], args[i])]
    IN  IF args = << >> THEN pred
        ELSE pred \o << "(" >> \o JoinComma(new_args) \o << ")" >>

(***************************************************************************)
(* unify.  The result is << >> for None and <<new_sub>> for a dict.        *)
(***************************************************************************)
None == << >>

\* week7: the loop of lines 52-65 from argument position i on
RECURSIVE UnifyArgs7(_, _, _, _)
UnifyArgs7(p_args, f_args, i, new_sub) ==
    IF i > Len(p_args) THEN << new_sub >>
    ELSE
        LET p_arg == p_args[i]
            f_arg == f_args[i]
            p_arg_resolved == Get(new_sub, p_arg, p_arg)
        IN  IF is_variable(p_arg)
            THEN IF is_variable(p_arg_resolved)
                 THEN UnifyArgs7(p_args, f_args, i + 1, Put(new_sub, p_arg, f_arg))
                 ELSE IF p_arg_resolved # f_arg
                      THEN None
                      ELSE UnifyArgs7(p_args, f_args, i + 1, new_sub)
            ELSE IF p_arg_resolved # f_arg
                 THEN None
                 ELSE UnifyArgs7(p_args, f_args, i + 1, new_sub)

Unify7(pattern, fact, existing_sub) ==
    LET p == ParseFact(pattern)
        f == ParseFact(fact)
    IN  IF p[1] # f[1] \/ Len(p[2]) # Len(f[2])
        THEN None
        ELSE UnifyArgs7(p[2], f[2], 1, existing_sub)

\* week8: the loop of lines 54-63 from argument position i on
RECURSIVE UnifyArgs8(_, _, _, _)
UnifyArgs8(p_args, f_args, i, new_sub) ==
    IF i > Len(p_args) THEN << new_sub >>
    ELSE
        LET p_arg == p_args[i]
            f_arg == f_args[i]
            p_arg_resolved == Get(new_sub, p_arg, p_arg)
        IN  IF is_variable(p_arg_resolved)
            THEN UnifyArgs8(p_args, f_args, i + 1, Put(new_sub, p_arg_resolved, f_arg))
            ELSE IF p_arg_resolved # f_arg
                 THEN None
                 ELSE UnifyArgs8(p_args, f_args, i + 1, new_sub)

Unify8(pattern, fact, sub) ==
    LET p == ParseFact(pattern)
        f == ParseFact(fact)
    IN  IF p[1] # f[1] \/ Len(p[2]) # Len(f[2])
        THEN None
        ELSE UnifyArgs8(p[2], f[2], 1, sub)

\* the unify of the engine variant v ("week7" or "week8")
unify(v, pattern, fact, sub) ==
    IF v = "week7" THEN Unify7(pattern, fact, sub) ELSE Unify8(pattern, fact, sub)

(***************************************************************************)
(* find_substitutions_for_premises / find_substitutions.  The generator's  *)
(* yields form a set of records: facts is the sequence of KB facts chosen  *)
(* for the premises on the way to the yield, sub the dict yielded.  The    *)
(* order of the yields follows the iteration order of the set kb, which    *)
(* Python leaves open.                                                     *)
(***************************************************************************)
RECURSIVE FindFrom(_, _, _, _, _)
FindFrom(v, premises, kb, initial_sub, chosen) ==
    IF premises = << >>
    THEN { [facts |-> chosen, sub |-> initial_sub] }
    ELSE UNION { LET sub_for_premise == unify(v, Head(premises), fact, initial_sub)
                 IN  IF sub_for_premise = None
                     THEN {}
                     ELSE FindFrom(v, Tail(premises), kb, sub_for_premise[1],
                                   Append(chosen, fact))
                 : fact \in kb }

find_substitutions(v, premises, kb, initial_sub) ==
    FindFrom(v, premises, kb, initial_sub, << >>)

(***************************************************************************)
(* The texts of the example of the __main__ blocks.  F_ names a fact, T_   *)
(* a premise or conclusion template.  The source writes "Owns(A, T1)" and  *)
(* "Enemy(A, America)" with a space; F_Owns and F_Enemy are the spellings  *)
(* without it.                                                             *)
(***************************************************************************)
F_American == <<"A", "m", "e", "r", "i", "c", "a", "n", "(", "R", "o", "b", "e", "r", "t", ")">>
F_OwnsSpaced == <<"O", "w", "n", "s", "(", "A", ",", " ", "T", "1", ")">>
F_Owns == <<"O", "w", "n", "s", "(", "A", ",", "T", "1", ")">>
F_Missile == <<"M", "i", "s", "s", "i", "l", "e", "(", "T", "1", ")">>
F_EnemySpaced == <<"E", "n", "e", "m", "y", "(", "A", ",", " ", "A", "m", "e", "r", "i", "c", "a", ")">>
F_Enemy == <<"E", "n", "e", "m", "y", "(", "A", ",", "A", "m", "e", "r", "i", "c", "a", ")">>
F_Weapon == <<"W", "e", "a", "p", "o", "n", "(", "T", "1", ")">>
F_Hostile == <<"H", "o", "s", "t", "i", "l", "e", "(", "A", ")">>
F_Sells == <<"S", "e", "l", "l", "s", "(", "R", "o", "b", "e", "r", "t", ",", "T", "1", ",", "A", ")">>
F_CriminalRobert == <<"C", "r", "i", "m", "i", "n", "a", "l", "(", "R", "o", "b", "e", "r", "t", ")">>
F_CriminalA == <<"C", "r", "i", "m", "i", "n", "a", "l", "(", "A", ")">>
T_AmericanP == <<"A", "m", "e", "r", "i", "c", "a", "n", "(", "p", ")">>
T_WeaponQ == <<"W", "e", "a", "p", "o", "n", "(", "q", ")">>
T_SellsPQR == <<"S", "e", "l", "l", "s", "(", "p", ",", " ", "q", ",", " ", "r", ")">>
T_HostileR == <<"H", "o", "s", "t", "i", "l", "e", "(", "r", ")">>
T_CriminalP == <<"C", "r", "i", "m", "i", "n", "a", "l", "(", "p", ")">>
T_MissileX == <<"M", "i", "s", "s", "i", "l", "e", "(", "x", ")">>
T_OwnsAX == <<"O", "w", "n", "s", "(", "A", ",", " ", "x", ")">>
T_SellsRobertXA == <<"S", "e", "l", "l", "s", "(", "R", "o", "b", "e", "r", "t", ",", " ", "x", ",", " ", "A", ")">>
T_WeaponX == <<"W", "e", "a", "p", "o", "n", "(", "x", ")">>
T_EnemyXAmerica == <<"E", "n", "e", "m", "y", "(", "x", ",", " ", "A", "m", "e", "r", "i", "c", "a", ")">>
T_HostileX == <<"H", "o", "s", "t", "i", "l", "e", "(", "x", ")">>

\* knowledge_base of the __main__ blocks
KnowledgeBase == {F_American, F_OwnsSpaced, F_Missile, F_EnemySpaced}

\* the same four facts written without spaces
KnowledgeBaseNoSpace == {F_American, F_Owns, F_Missile, F_Enemy}

\* the four rules of the __main__ blocks; a rule is <<premises, conclusion>>
RuleCriminal == << << T_AmericanP, T_WeaponQ, T_SellsPQR, T_HostileR >>, T_CriminalP >>
RuleSells    == << << T_MissileX, T_OwnsAX >>, T_SellsRobertXA >>
RuleWeapon   == << << T_MissileX >>, T_WeaponX >>
RuleHostile  == << << T_EnemyXAmerica >>, T_HostileX >>

ExampleRules == {RuleCriminal, RuleSells, RuleWeapon, RuleHostile}

(***************************************************************************)
(* A small universe of further inputs of forward_chaining.                 *)
(***************************************************************************)
F_PA == <<"P", "(", "A", ")">>
F_QABSpaced == <<"Q", "(", "A", ",", " ", "B", ")">>
F_QBB == <<"Q", "(", "B", ",", "B", ")">>
F_RA == <<"R", "(", "A", ")">>
T_Px == <<"P", "(", "x", ")">>
T_Rx == <<"R", "(", "x", ")">>
T_QxySpaced == <<"Q", "(", "x", ",", " ", "y", ")">>
T_Py == <<"P", "(", "y", ")">>
T_G == <<"G">>
T_Qyx == <<"Q", "(", "y", ",", "x", ")">>
T_Qzz == <<"Q", "(", "z", ",", "z", ")">>
T_Rz == <<"R", "(", "z", ")">>
T_Qzy == <<"Q", "(", "z", ",", "y", ")">>
T_QzA == <<"Q", "(", "z", ",", "A", ")">>
T_Ry == <<"R", "(", "y", ")">>

\* P(x) => R(x)
RuleChain  == << << T_Px >>, T_Rx >>
\* P(x), Q(x, y) => P(y)
RuleJoin   == << << T_Px, T_QxySpaced >>, T_Py >>
\* a rule with no premise: => G
RuleAxiom  == << << >>, T_G >>
\* P(x) => Q(y,x): the conclusion variable y occurs in no premise
RuleUnsafe == << << T_Px >>, T_Qyx >>
\* Q(z,z) => R(z): a variable repeated in one premise
RuleRepeat == << << T_Qzz >>, T_Rz >>
\* Q(z,y), Q(z,A) => R(y)
RuleTwice  == << << T_Qzy, T_QzA >>, T_Ry >>

RuleCatalogue == {RuleChain, RuleJoin, RuleAxiom, RuleUnsafe, RuleRepeat, RuleTwice}
FactCatalogue == {F_PA, F_QABSpaced, F_QBB}
QueryCatalogue == {F_PA, F_RA}
Variants == {"week7", "week8"}

\* longest rule list and largest initial fact set drawn from the catalogues
MaxRules == 2
MaxInitFacts == 2

\* the sequences of distinct elements of S of length at most n
RECURSIVE ListsOf(_, _)
ListsOf(S, n) ==
    IF n = 0 THEN { << >> }
    ELSE LET shorter == ListsOf(S, n - 1)
         IN  shorter \cup
             { Append(l, r) : l \in { m \in shorter : Len(m) = n - 1 }, r \in S }

NoRepeat(l) == \A i, j \in DOMAIN l : i # j => l[i] # l[j]

RuleLists == { l \in ListsOf(RuleCatalogue, MaxRules) : NoRepeat(l) }
ExampleRuleLists == { l \in ListsOf(ExampleRules, 4) : Len(l) = 4 /\ NoRepeat(l) }
InitFactSets == { S \in SUBSET FactCatalogue : Cardinality(S) <= MaxInitFacts }

(***************************************************************************)
(* State of one call forward_chaining(kb, rules, query), and of a second   *)
(* call on the set kb the first call has updated in place.                 *)
(***************************************************************************)
VARIABLES
    variant,     \* which file's engine runs: "week7" or "week8"
    knowledge_base, \* the module global of that name: Unbound, or "kb" when
                 \* it names the set passed as kb (line 147 / 193)
    kb,          \* the set kb, updated in place
    rules,       \* the rule list
    query,       \* the query text
    new_facts,   \* the round's batch
    iteration,   \* the round counter
    ridx,        \* index of the next rule of the for loop
    pc,          \* "rules", "merge", "query", "final", "done", "raised"
    exit,        \* which break left the loop: "none", "Halting", "Goal"
    verdict,     \* "none", "proven", "not proven"
    trace,       \* the inference steps printed so far
    snaps,       \* snaps[k]: kb when round k started
    kb0,         \* kb when the first call started
    run,         \* 1 for the first call, 2 for the second
    exit1,       \* exit of the first call, "none" during it
    called,      \* the function called on its own: "none", "unify", "solve", "render"
    actuals,     \* the arguments of that call
    heap,        \* the dict objects: heap[ref] is the content of object ref
    frames,      \* the stack of the generator's activations
    yielded,     \* the dicts the generator has yielded, as they were when yielded
    ret,         \* the value returned
    cpc          \* "idle", "called", "running", "suspended", "rendered",
                 \* "returned"

\* the state of forward_chaining
dvars == << variant, knowledge_base, kb, rules, query, new_facts, iteration, ridx, pc, exit,
            verdict, trace, snaps, kb0, run, exit1 >>

\* the state of a function called on its own
cvars == << called, actuals, heap, frames, yielded, ret, cpc >>

vars == << dvars, cvars >>

\* no function is called on its own
NoCall ==
    /\ called = "none"
    /\ actuals = << >>
    /\ heap = << >>
    /\ frames = << >>
    /\ yielded = << >>
    /\ ret = << >>
    /\ cpc = "idle"

\* the name knowledge_base is not bound in the module
Unbound == "unbound"

Start(v, g, facts, rs, q) ==
    /\ variant = v
    /\ knowledge_base = g
    /\ kb = facts
    /\ rules = rs
    /\ query = q
    /\ new_facts = {}
    /\ iteration = 1
    /\ ridx = 1
    /\ pc = "rules"
    /\ exit = "none"
    /\ verdict = "none"
    /\ trace = {}
    /\ snaps = << facts >>
    /\ kb0 = facts
    /\ run = 1
    /\ exit1 = "none"
    /\ NoCall

\* the file run as a script (lines 144-173 / 191-212): the global is bound
\* to the set that is passed as kb
InitExample ==
    \E v \in Variants, facts \in {KnowledgeBase, KnowledgeBaseNoSpace},
       rs \in ExampleRuleLists, q \in {F_CriminalRobert, F_CriminalA} :
        Start(v, "kb", facts, rs, q)

\* the global as an importing caller finds it: not bound, or bound by the
\* caller to the set it passes; week7 never reads it
Globals(v) == IF v = "week8" THEN {Unbound, "kb"} ELSE {Unbound}

\* forward_chaining called by a module that imports the file
InitCatalogue ==
    \E v \in Variants, facts \in InitFactSets, rs \in RuleLists, q \in QueryCatalogue :
        \E g \in Globals(v) : Start(v, g, facts, rs, q)

\* further inputs: a fact written without its closing parenthesis, a fact
\* written with and without a space, a query with a variable
F_PUnclosed == <<"P", "(", "A">>
F_QAB == <<"Q", "(", "A", ",", "B", ")">>

\* Q(x, y) => Q(y,x)
RuleSwap == << << T_QxySpaced >>, T_Qyx >>

InitSpellings ==
    \E v \in Variants, facts \in { {F_QABSpaced}, {F_PA, F_PUnclosed} },
       rs \in { << >>, << RuleSwap >>, << RuleChain >> }, q \in {F_QAB, T_Rx, F_RA} :
        \E g \in Globals(v) : Start(v, g, facts, rs, q)

Init == InitExample \/ InitCatalogue \/ InitSpellings

(***************************************************************************)
(* One rule of the for loop (lines 104-116 of week7, 115-132 of week8).    *)
(***************************************************************************)
\* the premises matched against the batch as well
MatchSetWithBatch(facts, batch) == facts \cup batch

\* the set the premises are matched against (the kb argument of line 106 / 117)
MatchSet(facts, batch) == facts

\* the test against kb left out
IsNewInBatchOnly(inferred_fact, facts, batch) == inferred_fact \notin batch

\* facts taken only while the batch is empty: the first rule that infers wins
IsNewInEmptyBatch(inferred_fact, facts, batch) ==
    inferred_fact \notin facts /\ batch = {}

\* line 110 / 120: the fact is added only if it is genuinely new
IsNew(inferred_fact, facts, batch) ==
    inferred_fact \notin facts /\ inferred_fact \notin batch

\* the yields of the premise solver for one rule
Yields(v, rule, facts, batch) ==
    find_substitutions(v, rule[1], MatchSet(facts, batch), EmptySub)

\* the facts one rule adds to the batch
Fresh(v, rule, facts, batch) ==
    { f \in { apply_substitution(rule[2], y.sub) : y \in Yields(v, rule, facts, batch) } :
        IsNew(f, facts, batch) }

\* the ways to name, for each fact a rule adds, the yield that inferred it first:
\* any yield that infers it may come first in the iteration order of the set
FirstYields(v, rule, facts, batch) ==
    { first \in [Fresh(v, rule, facts, batch) -> Yields(v, rule, facts, batch)] :
        \A f \in DOMAIN first : apply_substitution(rule[2], first[f].sub) = f }

\* line 112 / 122: the premises under the substitution, as rendered
PremiseFacts(premises, sub) ==
    [j \in DOMAIN premises |-> apply_substitution(premises[j], sub)]

\* the inference steps printed for the facts a rule adds (lines 111-116 /
\* 121-126): the round, the rule, the substitution, the rendered premises
\* after "With facts:", the inferred fact
Steps(k, i, rule, first) ==
    { [iteration |-> k, rule |-> i, sub |-> first[f].sub,
       facts |-> PremiseFacts(rule[1], first[f].sub), fact |-> f] :
      f \in DOMAIN first }

ApplyRule ==
    /\ pc = "rules"
    /\ ridx <= Len(rules)
    /\ \E first \in FirstYields(variant, rules[ridx], kb, new_facts) :
           /\ new_facts' = new_facts \cup DOMAIN first
           /\ trace' = trace \cup Steps(iteration, ridx, rules[ridx], first)
    /\ ridx' = ridx + 1
    /\ UNCHANGED << variant, knowledge_base, kb, rules, query, iteration, pc, exit, verdict,
                    snaps, kb0, run, exit1 >>
    /\ UNCHANGED cvars

\* a batch of one fact taken for an empty one
BatchAtMostOne(batch) == Cardinality(batch) <= 1

\* line 119 / 134: if not new_facts
BatchEmpty(batch) == batch = {}

CheckBatch ==
    /\ pc = "rules"
    /\ ridx > Len(rules)
    /\ IF BatchEmpty(new_facts)
       THEN pc' = "final" /\ exit' = "Halting"
       ELSE pc' = "merge" /\ exit' = exit
    /\ UNCHANGED << variant, knowledge_base, kb, rules, query, new_facts, iteration, ridx,
                    verdict, trace, snaps, kb0, run, exit1 >>
    /\ UNCHANGED cvars

\* kb replaced by the batch
UpdateReplaces(facts, batch) == batch

\* line 124 / 138: kb.update(new_facts)
Update(facts, batch) == facts \cup batch

Merge ==
    /\ pc = "merge"
    /\ kb' = Update(kb, new_facts)
    /\ pc' = "query"
    /\ UNCHANGED << variant, knowledge_base, rules, query, new_facts, iteration, ridx, exit,
                    verdict, trace, snaps, kb0, run, exit1 >>
    /\ UNCHANGED cvars

\* the query compared by predicate name only
QueryFoundByPredicate(q, facts) ==
    \E f \in facts : ParseFact(f)[1] = ParseFact(q)[1]

\* the goal test never succeeding
QueryFoundNever(q, facts) == FALSE

\* line 129 / 142: if query in kb
QueryFound(q, facts) == q \in facts

CheckQuery ==
    /\ pc = "query"
    /\ IF QueryFound(query, kb)
       THEN /\ pc' = "final"
            /\ exit' = "Goal"
            /\ UNCHANGED << iteration, new_facts, ridx, snaps >>
       ELSE /\ pc' = "rules"
            /\ iteration' = iteration + 1
            /\ new_facts' = {}
            /\ ridx' = 1
            /\ snaps' = Append(snaps, kb)
            /\ exit' = exit
    /\ UNCHANGED << variant, knowledge_base, kb, rules, query, verdict, trace, kb0, run, exit1 >>
    /\ UNCHANGED cvars

\* the verdict taken from the break that left the loop
ProvenByExit(q, facts) == exit = "Goal"

\* line 137 / 176: if query in kb
Proven(q, facts) == q \in facts

\* line 169 of week8: for fact in knowledge_base, a read of the module
\* global, which raises NameError when the name is not bound; week7 has no
\* such read
GlobalRead(v, g) == v = "week8" => g # Unbound

\* lines 135-141 / 148-188: after the loop, the final result
Conclude ==
    /\ pc = "final"
    /\ IF GlobalRead(variant, knowledge_base)
       THEN /\ verdict' = IF Proven(query, kb) THEN "proven" ELSE "not proven"
            /\ pc' = "done"
       ELSE /\ verdict' = verdict
            /\ pc' = "raised"
    /\ UNCHANGED << variant, knowledge_base, kb, rules, query, new_facts, iteration, ridx, exit,
                    trace, snaps, kb0, run, exit1 >>
    /\ UNCHANGED cvars

\* a second call forward_chaining(kb, rules, query) on the updated set
Rerun ==
    /\ pc \in {"done", "raised"}
    /\ run = 1
    /\ run' = 2
    /\ exit1' = exit
    /\ new_facts' = {}
    /\ iteration' = 1
    /\ ridx' = 1
    /\ pc' = "rules"
    /\ exit' = "none"
    /\ verdict' = "none"
    /\ trace' = {}
    /\ snaps' = << kb >>
    /\ UNCHANGED << variant, knowledge_base, kb, rules, query, kb0 >>
    /\ UNCHANGED cvars

Next == ApplyRule \/ CheckBatch \/ Merge \/ CheckQuery \/ Conclude \/ Rerun

Spec == Init /\ [][Next]_vars

(***************************************************************************)
(* unify, find_substitutions_for_premises / find_substitutions and the     *)
(* rendering of a fact, each called on its own.  A dict is an object: the  *)
(* caller and the callee hold references to it, heap[ref] is its content.  *)
(***************************************************************************)
\* further texts for these calls
F_PAB == <<"P", "(", "A", ",", "B", ")">>
F_PB == <<"P", "(", "B", ")">>
F_G == <<"G">>
F_QAA == <<"Q", "(", "A", ",", "A", ")">>
F_QBA == <<"Q", "(", "B", ",", "A", ")">>

\* premise templates and ground facts handed to unify
PatternCatalogue == {T_Px, T_Rx, T_QxySpaced, T_Qzz, T_QzA, T_Qzy, T_G}
GroundFactCatalogue == {F_PA, F_PAB, F_QABSpaced, F_QBB, F_QAA, F_RA, F_G}

\* the dicts handed to unify: the variables x, y, z, each unbound or bound to
\* the constant A, the constant B or the variable y (y itself not to y)
SubVariables == { <<"x">>, <<"y">>, <<"z">> }
SubTerms == { <<"A">>, <<"B">>, <<"y">> }
SubCatalogue ==
    { sub \in UNION { [D -> SubTerms] : D \in SUBSET SubVariables } :
        \A k \in DOMAIN sub : sub[k] # k }

\* forward_chaining is not running
DriverIdle ==
    /\ knowledge_base = Unbound
    /\ kb = {}
    /\ rules = << >>
    /\ query = << >>
    /\ new_facts = {}
    /\ iteration = 0
    /\ ridx = 0
    /\ pc = "idle"
    /\ exit = "none"
    /\ verdict = "none"
    /\ trace = {}
    /\ snaps = << >>
    /\ kb0 = {}
    /\ run = 0
    /\ exit1 = "none"

\* new_sub = existing_sub: the same object under a second name
CopyIsAlias(objs, ref) == [heap |-> objs, ref |-> ref]

\* line 51 / 53: existing_sub.copy(), a new dict object with the same bindings
Copy(objs, ref) == [heap |-> Append(objs, objs[ref]), ref |-> Len(objs) + 1]

\* the loop body of the engine variant v from argument position i on
UnifyArgs(v, p_args, f_args, i, new_sub) ==
    IF v = "week7" THEN UnifyArgs7(p_args, f_args, i, new_sub)
    ELSE UnifyArgs8(p_args, f_args, i, new_sub)

\* the loop over zip(p_args, f_args) cut after its first n pairs
LoopPrefix(v, p_args, f_args, n, new_sub) ==
    UnifyArgs(v, Slice(p_args, 1, n), Slice(f_args, 1, n), 1, new_sub)

(***************************************************************************)
(* unify on dict objects (lines 40-67 of week7, 41-65 of week8).  The      *)
(* result is the heap when unify returns and the value returned: None or   *)
(* << ref >>, ref the object new_sub.  The loop writes into new_sub until  *)
(* it ends or returns None.                                                *)
(***************************************************************************)
UnifyObjects(v, pattern, fact, objs, existing_sub) ==
    LET p == ParseFact(pattern)
        f == ParseFact(fact)
    IN  IF p[1] # f[1] \/ Len(p[2]) # Len(f[2])
        THEN [heap |-> objs, ret |-> None]
        ELSE
            LET c == Copy(objs, existing_sub)
                passed == { n \in 0..Len(p[2]) :
                              LoopPrefix(v, p[2], f[2], n, c.heap[c.ref]) # None }
                last == CHOOSE n \in passed : \A m \in passed : m <= n
                new_sub == LoopPrefix(v, p[2], f[2], last, c.heap[c.ref])[1]
            IN  [heap |-> [c.heap EXCEPT ![c.ref] = new_sub],
                 ret  |-> IF last = Len(p[2]) THEN << c.ref >> ELSE None]

\* a call unify(pattern, fact, existing_sub) about to run
InitUnify ==
    \E v \in Variants, pattern \in PatternCatalogue, fact \in GroundFactCatalogue,
       sub \in SubCatalogue :
        /\ variant = v
        /\ DriverIdle
        /\ called = "unify"
        /\ actuals = [pattern |-> pattern, fact |-> fact, existing_sub |-> 1,
                      entry |-> sub]
        /\ heap = << sub >>
        /\ frames = << >>
        /\ yielded = << >>
        /\ ret = << >>
        /\ cpc = "called"

CallUnify ==
    /\ called = "unify"
    /\ cpc = "called"
    /\ LET r == UnifyObjects(variant, actuals.pattern, actuals.fact, heap,
                             actuals.existing_sub)
       IN  /\ heap' = r.heap
           /\ ret' = r.ret
    /\ cpc' = "returned"
    /\ UNCHANGED << called, actuals, frames, yielded >>
    /\ UNCHANGED dvars

(***************************************************************************)
(* The generator find_substitutions_for_premises / find_substitutions run  *)
(* step by step.  A frame is one activation of the generator: premises its *)
(* argument, initial_sub the reference it was handed, untried the facts of *)
(* kb its for loop has not reached yet (the loop takes them in any order), *)
(* entry the bindings initial_sub had when the activation began.           *)
(***************************************************************************)
\* most facts in the set kb handed to the generator
MaxCallFacts == 2

PremiseCatalogue == { rule[1] : rule \in RuleCatalogue }
CallFactSets == { S \in SUBSET GroundFactCatalogue : Cardinality(S) <= MaxCallFacts }
InitialSubCatalogue == { sub \in SubCatalogue : DOMAIN sub \subseteq { <<"x">> } }

Frame(premises, ref, facts, objs) ==
    [premises |-> premises, initial_sub |-> ref, untried |-> facts, entry |-> objs[ref]]

Top == frames[Len(frames)]
Pop == SubSeq(frames, 1, Len(frames) - 1)

\* a call of the generator with its first activation about to run
InitSolve ==
    \E v \in Variants, premises \in PremiseCatalogue, facts \in CallFactSets,
       sub \in InitialSubCatalogue :
        /\ variant = v
        /\ DriverIdle
        /\ called = "solve"
        /\ actuals = [premises |-> premises, kb |-> facts, initial_sub |-> 1,
                      entry |-> sub]
        /\ heap = << sub >>
        /\ frames = << Frame(premises, 1, facts, << sub >>) >>
        /\ yielded = << >>
        /\ ret = << >>
        /\ cpc = "running"

\* lines 74-75 / 72-73: if not premises: yield initial_sub.  The generator
\* is suspended with every activation alive and the consumer holds the dict
SolveYield ==
    /\ called = "solve"
    /\ cpc = "running"
    /\ frames # << >>
    /\ Top.premises = << >>
    /\ yielded' = Append(yielded, heap[Top.initial_sub])
    /\ cpc' = "suspended"
    /\ UNCHANGED << called, actuals, heap, frames, ret >>
    /\ UNCHANGED dvars

\* line 76 / 74: the consumer, list(), asks for the next dict; the
\* activation that yielded returns
SolveResume ==
    /\ called = "solve"
    /\ cpc = "suspended"
    /\ frames' = Pop
    /\ cpc' = "running"
    /\ UNCHANGED << called, actuals, heap, yielded, ret >>
    /\ UNCHANGED dvars

\* lines 82-88 / 79-86: one pass of for fact in kb
SolveTry ==
    /\ called = "solve"
    /\ cpc = "running"
    /\ frames # << >>
    /\ Top.premises # << >>
    /\ \E fact \in Top.untried :
           LET r == UnifyObjects(variant, Head(Top.premises), fact, heap, Top.initial_sub)
               rest == [frames EXCEPT ![Len(frames)].untried = Top.untried \ {fact}]
           IN  /\ heap' = r.heap
               /\ frames' = IF r.ret = None
                            THEN rest
                            ELSE Append(rest, Frame(Tail(Top.premises), r.ret[1],
                                                    actuals.kb, r.heap))
    /\ UNCHANGED << called, actuals, yielded, ret, cpc >>
    /\ UNCHANGED dvars

\* the for loop has taken every fact of kb: the activation ends
SolveExhaust ==
    /\ called = "solve"
    /\ cpc = "running"
    /\ frames # << >>
    /\ Top.premises # << >>
    /\ Top.untried = {}
    /\ frames' = Pop
    /\ UNCHANGED << called, actuals, heap, yielded, ret, cpc >>
    /\ UNCHANGED dvars

\* the first activation has ended: the generator is exhausted
SolveReturn ==
    /\ called = "solve"
    /\ cpc = "running"
    /\ frames = << >>
    /\ cpc' = "returned"
    /\ ret' = yielded
    /\ UNCHANGED << called, actuals, heap, frames, yielded >>
    /\ UNCHANGED dvars

(***************************************************************************)
(* A ground fact, given as a predicate name and constants, rendered and    *)
(* parsed back.                                                            *)
(***************************************************************************)
\* most arguments of a fact rendered
MaxArgs == 2

PredicateNames == { <<"P">>, <<"O", "w", "n", "s">>, <<"G">> }
ConstantNames == { <<"A">>, <<"T", "1">>, <<"A", "m", "e", "r", "i", "c", "a">> }
ConstantLists == UNION { [1..n -> ConstantNames] : n \in 0..MaxArgs }

\* lines 34-38 / 36-39: the bare predicate, or f"{pred}({','.join(new_args)})"
Render(pred, new_args) ==
    IF new_args = << >> THEN pred
    ELSE pred \o << "(" >> \o JoinComma(new_args) \o << ")" >>

InitRender ==
    \E v \in Variants, pred \in PredicateNames, consts \in ConstantLists :
        /\ variant = v
        /\ DriverIdle
        /\ called = "render"
        /\ actuals = [pred |-> pred, args |-> consts]
        /\ heap = << >>
        /\ frames = << >>
        /\ yielded = << >>
        /\ ret = << >>
        /\ cpc = "called"

\* the text of the fact
CallRender ==
    /\ called = "render"
    /\ cpc = "called"
    /\ ret' = Render(actuals.pred, actuals.args)
    /\ cpc' = "rendered"
    /\ UNCHANGED << called, actuals, heap, frames, yielded >>
    /\ UNCHANGED dvars

\* parse_fact of that text
CallParse ==
    /\ called = "render"
    /\ cpc = "rendered"
    /\ ret' = ParseFact(ret)
    /\ cpc' = "returned"
    /\ UNCHANGED << called, actuals, heap, frames, yielded >>
    /\ UNCHANGED dvars

CallInit == InitUnify \/ InitSolve \/ InitRender

CallNext ==
    \/ CallUnify
    \/ SolveYield \/ SolveResume \/ SolveTry \/ SolveExhaust \/ SolveReturn
    \/ CallRender \/ CallParse

CallSpec == CallInit /\ [][CallNext]_vars

(***************************************************************************)
(* Vocabulary of the properties                                            *)
(***************************************************************************)
Range(seq) == { seq[i] : i \in DOMAIN seq }

PredOf(text) == ParseFact(text)[1]
ArgsOf(text) == ParseFact(text)[2]

\* the arguments occurring in a set of texts
TermsOf(texts) == UNION { Range(ArgsOf(t)) : t \in texts }

\* the variables (lowercase-leading arguments) occurring in a set of texts
VarsOf(texts) == { a \in TermsOf(texts) : is_variable(a) }

\* a ground fact has no variable among its arguments
Ground(text) == VarsOf({text}) = {}

\* a safe rule: every variable of the conclusion occurs in some premise
SafeRule(rule) == VarsOf({rule[2]}) \subseteq VarsOf(Range(rule[1]))

\* the texts of a rule list
RuleTexts(rs) == UNION { Range(rs[i][1]) \cup {rs[i][2]} : i \in DOMAIN rs }

\* the facts the current call started with
InitialFacts == snaps[1]

\* ground initial facts and safe rules
SafeInputs ==
    /\ \A f \in InitialFacts : Ground(f)
    /\ \A i \in DOMAIN rules : SafeRule(rules[i])

\* text f, read as a fact, is premise template t instantiated by sub
Instance(t, sub, f) == ParseFact(apply_substitution(t, sub)) = ParseFact(f)

\* sub makes every premise of the rule a fact of the set facts
Satisfies(rule, sub, facts) ==
    \A i \in DOMAIN rule[1] : \E f \in facts : Instance(rule[1][i], sub, f)

(***************************************************************************)
(* C1: soundness.  Every fact added in round k is recorded with a rule and *)
(* one substitution; the rule's conclusion under that substitution is the  *)
(* fact, and every premise of the rule under that substitution is a fact   *)
(* that was in the fact base when round k started.                         *)
(***************************************************************************)
SoundStep(step) ==
    LET rule == rules[step.rule]
    IN  /\ apply_substitution(rule[2], step.sub) = step.fact
        /\ Satisfies(rule, step.sub, snaps[step.iteration])

C1_Soundness ==
    /\ \A step \in trace : SoundStep(step)
    /\ (kb \cup new_facts) \ InitialFacts \subseteq { step.fact : step \in trace }

(***************************************************************************)
(* C2: fixpoint at Converged.  When the loop is left on an empty batch,    *)
(* every substitution of a rule's premise variables by terms of the fact   *)
(* base that makes all premises facts of the fact base has its conclusion  *)
(* in the fact base.                                                       *)
(***************************************************************************)
Closed(rs, facts) ==
    \A i \in DOMAIN rs :
        \A sub \in [VarsOf(Range(rs[i][1])) -> TermsOf(facts)] :
            Satisfies(rs[i], sub, facts) => apply_substitution(rs[i][2], sub) \in facts

C2_Fixpoint == exit = "Halting" => Closed(rules, kb)

(***************************************************************************)
(* C3: termination.  As claimed: with ground initial facts and safe rules  *)
(* the number of rounds is at most the number of ground facts over the     *)
(* predicates and constants of the initial facts and rules (C3_RoundBound).*)
(***************************************************************************)
Signatures(texts) == { << PredOf(t), Len(ArgsOf(t)) >> : t \in texts }

Constants(texts) == TermsOf(texts) \ VarsOf(texts)

RECURSIVE Pow(_, _)
Pow(b, e) == IF e = 0 THEN 1 ELSE b * Pow(b, e - 1)

RECURSIVE SumPow(_, _)
SumPow(sigs, c) ==
    IF sigs = {} THEN 0
    ELSE LET sig == CHOOSE x \in sigs : TRUE
         IN  Pow(c, sig[2]) + SumPow(sigs \ {sig}, c)

\* the number of ground facts expressible over the initial facts and rules
HerbrandSize ==
    LET texts == InitialFacts \cup RuleTexts(rules)
    IN  SumPow(Signatures(texts), Cardinality(Constants(texts)))

C3_RoundBound == (SafeInputs /\ pc = "done") => iteration <= HerbrandSize

(***************************************************************************)
(* C3 as amended: with ground initial facts and safe rules the call never  *)
(* loops forever and runs at most that number plus one rounds.  Every step *)
(* of the call strictly decreases Rank, a natural number that counts the   *)
(* statements left if every one of the HerbrandSize + 1 rounds were run in *)
(* full; Rank would be negative in a round beyond them.                    *)
(***************************************************************************)
\* the statements left in a round at position p of the loop, rule index r
RoundRest(p, r) ==
    CASE p = "rules" -> (Len(rules) + 1 - r) + 4
      [] p = "merge" -> 3
      [] p = "query" -> 2
      [] p = "final" -> 1
      [] p = "done"  -> 0
      [] p = "raised" -> 0

\* with h the number of ground facts: the statements left in round it, at p and r
Rank(h, it, p, r) == (h + 1 - it) * (Len(rules) + 5) + RoundRest(p, r)

C3_Termination ==
    [][ (SafeInputs /\ run' = run) =>
            LET h == HerbrandSize
            IN  /\ rules' = rules
                /\ snaps'[1] = snaps[1]
                /\ Rank(h, iteration, pc, ridx) >= 0
                /\ Rank(h, iteration', pc', ridx') >= 0
                /\ Rank(h, iteration', pc', ridx') < Rank(h, iteration, pc, ridx) ]_vars

C3_Witness ==
    /\ SafeInputs
    /\ pc = "done"
    /\ exit = "Halting"
    /\ trace # {}
    /\ iteration = HerbrandSize + 1

(***************************************************************************)
(* C4: monotonicity.  The fact base at the start of each round contains    *)
(* the fact base at the start of the round before, the current fact base   *)
(* contains them all, and all contain the initial facts.                   *)
(***************************************************************************)
C4_Monotonic ==
    /\ kb0 \subseteq InitialFacts
    /\ \A k \in 1..(Len(snaps) - 1) : snaps[k] \subseteq snaps[k + 1]
    /\ snaps[Len(snaps)] \subseteq kb

C4_Witness ==
    /\ Len(snaps) >= 3
    /\ snaps[1] # snaps[2]
    /\ snaps[2] # snaps[3]

(***************************************************************************)
(* C5: the proof scenario.  With the four facts and four rules of the      *)
(* example and the query Criminal(Robert), round 1 adds exactly            *)
(* Weapon(T1), Hostile(A) and Sells(Robert,T1,A), round 2 adds exactly     *)
(* Criminal(Robert), and the call ends after round 2 through the goal      *)
(* break, proven, with 4 inference steps.                                  *)
(***************************************************************************)
ExampleRun ==
    /\ run = 1
    /\ kb0 \in {KnowledgeBase, KnowledgeBaseNoSpace}
    /\ rules \in ExampleRuleLists

\* round k has evaluated all its rules
RoundDone(k) ==
    iteration > k \/ (iteration = k /\ (pc # "rules" \/ ridx > Len(rules)))

\* the facts inferred in round k
FactsOfRound(k) == { step.fact : step \in { t \in trace : t.iteration = k } }

C5_ProofScenario ==
    (ExampleRun /\ query = F_CriminalRobert) =>
        /\ iteration <= 2
        /\ RoundDone(1) => FactsOfRound(1) = {F_Weapon, F_Hostile, F_Sells}
        /\ RoundDone(2) => FactsOfRound(2) = {F_CriminalRobert}
        /\ pc = "done" =>
            /\ iteration = 2
            /\ exit = "Goal"
            /\ verdict = "proven"
            /\ Cardinality(trace) = 4
            /\ kb = kb0 \cup {F_Weapon, F_Hostile, F_Sells, F_CriminalRobert}

C5_Witness ==
    /\ ExampleRun
    /\ query = F_CriminalRobert
    /\ pc = "done"
    /\ F_CriminalRobert \in kb

(***************************************************************************)
(* C6: the non-proof scenario.  With the same facts and rules and the      *)
(* query Criminal(A), the query never enters the fact base, the loop is    *)
(* left on an empty batch, the facts derived are exactly the same four,    *)
(* and the verdict is "not proven".                                        *)
(***************************************************************************)
C6_NonProofScenario ==
    (ExampleRun /\ query = F_CriminalA) =>
        /\ query \notin kb
        /\ exit # "Goal"
        /\ pc = "done" =>
            /\ exit = "Halting"
            /\ new_facts = {}
            /\ verdict = "not proven"
            /\ { step.fact : step \in trace } =
                   {F_Weapon, F_Hostile, F_Sells, F_CriminalRobert}
            /\ kb = kb0 \cup {F_Weapon, F_Hostile, F_Sells, F_CriminalRobert}

C6_Witness ==
    /\ ExampleRun
    /\ query = F_CriminalA
    /\ pc = "done"
    /\ F_CriminalRobert \in kb

(***************************************************************************)
(* C7: unsafe-rule rejection.  A rule whose conclusion has a variable that *)
(* occurs in none of its premises is never applied, and no fact with its   *)
(* conclusion's predicate and that variable left in it enters the batch or *)
(* the fact base.                                                          *)
(***************************************************************************)
UnboundVars(rule) == VarsOf({rule[2]}) \ VarsOf(Range(rule[1]))

C7_UnsafeRuleRejected ==
    \A i \in DOMAIN rules :
        ~SafeRule(rules[i]) =>
            /\ \A step \in trace : step.rule # i
            /\ \A f \in kb \cup new_facts :
                   ~(/\ PredOf(f) = PredOf(rules[i][2])
                     /\ Range(ArgsOf(f)) \cap UnboundVars(rules[i]) # {})

(***************************************************************************)
(* C8: stop on proof.  At the goal test after a merge: when the query is   *)
(* in the fact base the loop is left through the goal break, and from then *)
(* on the call adds no fact, records no inference step and starts no       *)
(* round; when the query is not in the fact base the next round starts.    *)
(***************************************************************************)
C8_StopOnProof ==
    [][ /\ (pc = "query" /\ query \in kb) => (pc' = "final" /\ exit' = "Goal")
        /\ (pc = "query" /\ query \notin kb) =>
               (pc' = "rules" /\ iteration' = iteration + 1 /\ ridx' = 1
                /\ new_facts' = {} /\ exit' = "none")
        /\ (exit = "Goal" /\ run' = run) =>
               (kb' = kb /\ trace' = trace /\ iteration' = iteration
                /\ pc' \in {"final", "done", "raised"}) ]_vars

\* the call stopped on the proof although the rules could derive more
C8_Witness ==
    /\ exit = "Goal"
    /\ pc = "done"
    /\ ~Closed(rules, kb)

(***************************************************************************)
(* C9: terminal state and verdict.  Every call that has ended has ended    *)
(* through the goal break with verdict "proven" exactly when the query is  *)
(* in the final fact base, and on an empty batch with verdict "not proven" *)
(* exactly when it is not.                                                 *)
(***************************************************************************)
C9_ExitMatchesMembership ==
    pc \in {"done", "raised"} =>
        /\ (exit = "Goal" /\ verdict = "proven") <=> query \in kb
        /\ (exit = "Halting" /\ verdict = "not proven") <=> query \notin kb

(***************************************************************************)
(* For a call that returns: the verdict is "proven" exactly when the query *)
(* is in the final fact base; a call that ends through the goal break has  *)
(* the query in the fact base; a call that ends on an empty batch has the  *)
(* query in the fact base only if the query was among the initial facts    *)
(* and round 1 inferred nothing.                                           *)
(***************************************************************************)
C9_VerdictOfReturnedCall ==
    pc = "done" =>
        /\ exit \in {"Goal", "Halting"}
        /\ verdict = "proven" <=> query \in kb
        /\ verdict = "not proven" <=> query \notin kb
        /\ exit = "Goal" => query \in kb
        /\ (exit = "Halting" /\ query \in kb) =>
               (query \in InitialFacts /\ iteration = 1 /\ trace = {})

\* a call ended by the NameError with the query in its fact base
C9_Raised ==
    /\ pc = "raised"
    /\ verdict = "none"
    /\ query \in kb

(***************************************************************************)
(* C10: idempotence of closure.  As claimed: a second call on the first    *)
(* call's final fact base, with the same rules, infers nothing in its      *)
(* first round and never starts a second.                                  *)
(***************************************************************************)
C10_SecondRunEmpty == run = 2 => (new_facts = {} /\ iteration = 1 /\ exit # "Goal")

(***************************************************************************)
(* C10 as amended: the same, for a first call that ended on an empty       *)
(* batch.                                                                  *)
(***************************************************************************)
C10_SecondRunEmptyAfterHalting ==
    (run = 2 /\ exit1 = "Halting") =>
        (new_facts = {} /\ iteration = 1 /\ exit # "Goal" /\ kb = InitialFacts)

\* a second call, finished, after a first call that inferred facts and converged
C10_Witness ==
    /\ run = 2
    /\ exit1 = "Halting"
    /\ pc = "done"
    /\ kb # kb0

(***************************************************************************)
(* C11: unifier result.  As claimed, for every premise template, ground    *)
(* fact and substitution sub: unify returns None exactly when the          *)
(* predicate names differ, or the argument counts differ, or at some       *)
(* position the pattern argument resolved through the substitution built   *)
(* so far is a constant different from the fact's argument; otherwise it   *)
(* returns sub extended with exactly one binding, variable -> fact         *)
(* argument, for each pattern variable that was unbound, and the result    *)
(* applied to the pattern is the fact.                                     *)
(***************************************************************************)
\* result has every binding of sub
Extends(result, sub) ==
    /\ DOMAIN sub \subseteq DOMAIN result
    /\ \A k \in DOMAIN sub : result[k] = sub[k]

\* the pattern variables sub leaves unbound
UnboundIn(p_args, sub) == { a \in Range(p_args) : is_variable(a) } \ DOMAIN sub

\* sub with each unbound pattern variable first met before position i bound
\* to the fact argument it met
BuiltBefore(p_args, f_args, i, sub) ==
    LET met == { a \in UnboundIn(p_args, sub) : \E j \in 1..(i - 1) : p_args[j] = a }
        first(a) == CHOOSE j \in 1..(i - 1) :
                        p_args[j] = a /\ \A m \in 1..(j - 1) : p_args[m] # a
    IN  [k \in (DOMAIN sub) \cup met |->
            IF k \in DOMAIN sub THEN sub[k] ELSE f_args[first(k)]]

\* the claimed ground of failure
Mismatch(pattern, fact, sub) ==
    LET p == ParseFact(pattern)
        f == ParseFact(fact)
    IN  \/ p[1] # f[1]
        \/ Len(p[2]) # Len(f[2])
        \/ \E i \in 1..Len(p[2]) :
               LET built == BuiltBefore(p[2], f[2], i, sub)
                   resolved == Get(built, p[2][i], p[2][i])
               IN  ~is_variable(resolved) /\ resolved # f[2][i]

\* the claimed result of a success
ExtendedByPattern(pattern, fact, sub, result) ==
    LET p == ParseFact(pattern)
        f == ParseFact(fact)
    IN  /\ Extends(result, sub)
        /\ DOMAIN result = (DOMAIN sub) \cup UnboundIn(p[2], sub)
        /\ \A k \in UnboundIn(p[2], sub) :
               \E i \in 1..Len(p[2]) : p[2][i] = k /\ result[k] = f[2][i]
        /\ Instance(pattern, result, fact)

UnifyReturned == called = "unify" /\ cpc = "returned"

C11_UnifierResult ==
    UnifyReturned =>
        /\ ret = None <=> Mismatch(actuals.pattern, actuals.fact, actuals.entry)
        /\ ret # None =>
               ExtendedByPattern(actuals.pattern, actuals.fact, actuals.entry,
                                 heap[ret[1]])

\* sub binds variables to constants only
BindsConstants(sub) == \A k \in DOMAIN sub : is_variable(k) /\ ~is_variable(sub[k])

\* the same result, for the substitutions that bind variables to constants
\* only: those unify builds from ground facts starting at the empty dict
C11_UnifierResultOnConstants ==
    (UnifyReturned /\ BindsConstants(actuals.entry)) =>
        /\ ret = None <=> Mismatch(actuals.pattern, actuals.fact, actuals.entry)
        /\ ret # None =>
               ExtendedByPattern(actuals.pattern, actuals.fact, actuals.entry,
                                 heap[ret[1]])

(***************************************************************************)
(* C12: premise solver, completeness and exactness.  As claimed, for every *)
(* premise list, fact set and initial substitution sub0: the substitutions *)
(* yielded are exactly the extensions of sub0 by the premises' variables   *)
(* under which every premise, instantiated, is a fact of the set; an empty *)
(* premise list yields exactly sub0; and at most |facts|^|premises|        *)
(* substitutions are yielded.                                              *)
(***************************************************************************)
Solutions(premises, facts, sub0) ==
    LET keys == (DOMAIN sub0) \cup VarsOf(Range(premises))
        values == TermsOf(facts) \cup Range(sub0)
    IN  { s \in [keys -> values] :
            /\ Extends(s, sub0)
            /\ \A i \in DOMAIN premises : \E f \in facts : Instance(premises[i], s, f) }

SolveReturned == called = "solve" /\ cpc = "returned"

C12_SolverExact ==
    SolveReturned =>
        /\ Range(yielded) = Solutions(actuals.premises, actuals.kb, actuals.entry)
        /\ actuals.premises = << >> => yielded = << actuals.entry >>
        /\ Len(yielded) <= Pow(Cardinality(actuals.kb), Len(actuals.premises))

\* the same, for the initial substitutions that bind variables to constants only
C12_SolverExactOnConstants ==
    (SolveReturned /\ BindsConstants(actuals.entry)) =>
        /\ Range(yielded) = Solutions(actuals.premises, actuals.kb, actuals.entry)
        /\ actuals.premises = << >> => yielded = << actuals.entry >>
        /\ Len(yielded) <= Pow(Cardinality(actuals.kb), Len(actuals.premises))

\* the generator run step by step yields what find_substitutions yields
SolverAgrees ==
    SolveReturned =>
        LET yields == find_substitutions(variant, actuals.premises, actuals.kb,
                                         actuals.entry)
        IN  /\ Range(yielded) = { y.sub : y \in yields }
            /\ Len(yielded) = Cardinality(yields)

(***************************************************************************)
(* C13: round trip.  For every ground fact, a predicate name with zero or  *)
(* more constant arguments, the text rendered for it is left as it is by   *)
(* apply_substitution with no bindings, and parse_fact of that text gives  *)
(* back the predicate name and the argument sequence.                      *)
(***************************************************************************)
C13_RoundTrip ==
    /\ (called = "render" /\ cpc = "rendered") =>
           apply_substitution(ret, EmptySub) = ret
    /\ (called = "render" /\ cpc = "returned") =>
           ret = << actuals.pred, actuals.args >>

\* a fact of two arguments rendered and parsed back
C13_Witness ==
    /\ called = "render"
    /\ cpc = "returned"
    /\ Len(actuals.args) = 2
    /\ actuals.args[1] # actuals.args[2]

(***************************************************************************)
(* C14: round cap.  Whatever positive round_cap the caller asks for, the   *)
(* call never runs more than round_cap rounds: once round_cap rounds are   *)
(* complete it stops and reports.                                          *)
(***************************************************************************)
\* the largest round_cap asked for
MaxRoundCap == 2

C14_RoundCap == \A round_cap \in 1..MaxRoundCap : iteration <= round_cap

(***************************************************************************)
(* C15: input validation precedes inference.  When a fact or rule text is  *)
(* not of the form Name or Name(arg, arg, ...), or the query contains a    *)
(* variable, the call is refused before the first round: no rule is        *)
(* evaluated, no fact is inferred, the fact base stays as it was and no    *)
(* verdict is given.                                                       *)
(***************************************************************************)
\* a non-empty run of word characters
Identifier(s) == s # << >> /\ \A i \in DOMAIN s : s[i] \in WordChars

\* Name, or Name(arg, arg, ...) with the arguments trimmed, possibly none
WellFormed(text) ==
    LET w == WordPrefixLen(text)
        inner == Slice(text, w + 2, Len(text) - 1)
    IN  \/ Identifier(text)
        \/ /\ w >= 1
           /\ Len(text) >= w + 2
           /\ text[w + 1] = "("
           /\ text[Len(text)] = ")"
           /\ \/ inner = << >>
              \/ \A piece \in Range(SplitComma(inner)) : Identifier(Strip(piece))

InvalidInput ==
    \/ \E text \in kb0 \cup RuleTexts(rules) \cup {query} : ~WellFormed(text)
    \/ ~Ground(query)

C15_ValidationFirst ==
    InvalidInput =>
        /\ iteration = 1
        /\ ridx = 1
        /\ new_facts = {}
        /\ trace = {}
        /\ kb = kb0
        /\ verdict = "none"

(***************************************************************************)
(* C16: order independence.  The fact base after every round, the number   *)
(* of rounds and the verdict (none where the call raises after its loop)   *)
(* are those worked out from the set of the rules, the set of the initial  *)
(* facts and the query alone, so they are the same for every ordering of   *)
(* the rule list and every order in which the facts are enumerated.        *)
(***************************************************************************)
\* what the rules of a set infer from a set of facts
Consequences(v, ruleset, facts) ==
    UNION { { apply_substitution(rule[2], y.sub) :
                y \in find_substitutions(v, rule[1], facts, EmptySub) } :
            rule \in ruleset }

\* rounds, final facts and verdict from round k on, facts being the fact base
RECURSIVE RunOf(_, _, _, _, _)
RunOf(v, ruleset, q, facts, k) ==
    LET batch == Consequences(v, ruleset, facts) \ facts
    IN  IF batch = {}
        THEN [rounds |-> k, facts |-> facts,
              verdict |-> IF q \in facts THEN "proven" ELSE "not proven"]
        ELSE IF q \in facts \cup batch
        THEN [rounds |-> k, facts |-> facts \cup batch, verdict |-> "proven"]
        ELSE RunOf(v, ruleset, q, facts \cup batch, k + 1)

C16_OrderIndependent ==
    /\ \A k \in 1..(Len(snaps) - 1) :
           snaps[k + 1] = snaps[k] \cup Consequences(variant, Range(rules), snaps[k])
    /\ pc \in {"done", "raised"} =>
           LET r == RunOf(variant, Range(rules), query, InitialFacts, 1)
           IN  /\ iteration = r.rounds
               /\ kb = r.facts
               /\ verdict = IF GlobalRead(variant, knowledge_base)
                             THEN r.verdict ELSE "none"

\* a finished call of several rounds in which two rules inferred in one round
C16_Witness ==
    /\ pc = "done"
    /\ iteration >= 2
    /\ \E s, t \in trace : s.iteration = t.iteration /\ s.rule < t.rule

(***************************************************************************)
(* C17: semi-naive staging.  From the start of a round until its merge the *)
(* fact base is the one the round started with; the only step that changes *)
(* the fact base is the merge, which adds the round's batch; the batch is  *)
(* empty when a round starts; and every premise of every inference step of *)
(* round k was matched by a fact that was in the fact base when round k    *)
(* started, so a fact produced in round k is matched from round k+1 on.    *)
(***************************************************************************)
\* the yields of the premise solver over the set facts that end with the
\* substitution of the step
MatchesOf(step, facts) ==
    { y \in find_substitutions(variant, rules[step.rule][1], facts, EmptySub) :
        y.sub = step.sub }

StagedRound ==
    /\ Len(snaps) = iteration
    /\ pc \in {"rules", "merge"} => kb = snaps[iteration]
    /\ pc = "rules" => new_facts \cap kb = {}
    /\ \A step \in trace :
           /\ MatchesOf(step, snaps[step.iteration]) # {}
           /\ step.iteration = iteration =>
                  \E y \in MatchesOf(step, snaps[step.iteration]) :
                      Range(y.facts) \cap (new_facts \ kb) = {}

OnlyMergeWrites ==
    /\ kb' # kb => (pc = "merge" /\ kb' = kb \cup new_facts)
    /\ pc = "merge" => (kb' = kb \cup new_facts /\ new_facts' = new_facts)
    /\ iteration' # iteration => new_facts' = {}

C17_Staging == []StagedRound /\ [][OnlyMergeWrites]_vars

\* a fact inferred in one round matched by a premise in the next
C17_Witness ==
    \E s, t \in trace :
        /\ t.iteration = s.iteration + 1
        /\ \E y \in MatchesOf(t, snaps[t.iteration]) : s.fact \in Range(y.facts)

(***************************************************************************)
(* C18: no duplicate facts.  Facts are identified by predicate name and    *)
(* argument sequence: the fact base never holds two entries with the same  *)
(* predicate and arguments, no inference step is recorded for a fact whose *)
(* predicate and arguments are those of a fact the round started with, and *)
(* a finished call has proven its query whenever a fact with the query's   *)
(* predicate and arguments is in the fact base.                            *)
(***************************************************************************)
SameFact(f, g) == ParseFact(f) = ParseFact(g)

C18_NoDuplicates ==
    /\ \A f, g \in kb : SameFact(f, g) => f = g
    /\ \A step \in trace :
           \A g \in snaps[step.iteration] : ~SameFact(step.fact, g)
    /\ pc = "done" =>
           ((\E f \in kb : SameFact(f, query)) => verdict = "proven")

(***************************************************************************)
(* C19: groundness.  When the initial facts are ground and every variable  *)
(* of every rule's conclusion occurs in its premises, every fact of the    *)
(* fact base and of the batch is ground at every moment of the call.       *)
(***************************************************************************)
C19_Groundness == SafeInputs => \A f \in kb \cup new_facts : Ground(f)

\* a finished call on such inputs that inferred a fact by binding a variable
C19_Witness ==
    /\ SafeInputs
    /\ pc = "done"
    /\ \E step \in trace :
           /\ VarsOf({rules[step.rule][2]}) # {}
           /\ step.fact \in kb

(***************************************************************************)
(* C20: substitutions are never mutated.  The dict handed to unify has its *)
(* original bindings when unify returns, whether it returns None or a      *)
(* dict, and the dict returned is another object; in the premise solver    *)
(* the dict of every activation keeps the bindings it had when the         *)
(* activation began, so each fact of the for loop is tried under the same  *)
(* bindings, whatever the branches before it bound.                        *)
(***************************************************************************)
C20_NotMutated ==
    /\ called = "unify" =>
           /\ heap[actuals.existing_sub] = actuals.entry
           /\ (cpc = "returned" /\ ret # None) => ret[1] # actuals.existing_sub
    /\ called = "solve" =>
           /\ heap[actuals.initial_sub] = actuals.entry
           /\ \A i \in DOMAIN frames :
                  /\ heap[frames[i].initial_sub] = frames[i].entry
                  /\ \A j \in DOMAIN frames :
                         i # j => frames[i].initial_sub # frames[j].initial_sub

\* the solver about to try another fact after a branch that wrote bindings
C20_Witness ==
    /\ called = "solve"
    /\ cpc = "running"
    /\ Len(frames) = 1
    /\ Top.untried # {}
    /\ \E ref \in 2..Len(heap) : heap[ref] # heap[1]

\* the engine file the run was not made with
OtherVariant == IF variant = "week7" THEN "week8" ELSE "week7"

\* the substitutions of the catalogue that map variables to constants
ConstantSubCatalogue == { sub \in SubCatalogue : BindsConstants(sub) }

\* both unify functions return the same on every ground fact of the
\* catalogue, every premise template and every such substitution
UnifiersAgree ==
    \A pattern \in PatternCatalogue : \A fact \in GroundFactCatalogue :
        \A sub \in ConstantSubCatalogue :
            unify("week7", pattern, fact, sub) = unify("week8", pattern, fact, sub)

\* the fact base after every round and the number of rounds of the run are
\* those the other file's engine computes from the same initial facts,
\* rules and query
DriversAgree ==
    /\ \A k \in 1..(Len(snaps) - 1) :
           snaps[k + 1] =
               snaps[k] \cup Consequences(OtherVariant, Range(rules), snaps[k])
    /\ pc \in {"done", "raised"} =>
           LET r == RunOf(OtherVariant, Range(rules), query, InitialFacts, 1)
           IN  /\ iteration = r.rounds
               /\ kb = r.facts

(***************************************************************************)
(* C21: the two engine variants agree on ground facts.  For every premise  *)
(* template, every ground fact and every substitution that maps variables  *)
(* to constants, unify of week7/Unification.py and unify of week8/fol.py   *)
(* return the same result, and the two forward_chaining drivers compute    *)
(* the same fact base after every round for the same initial facts, rules  *)
(* and query.                                                              *)
(***************************************************************************)
C21_VariantsAgree == UnifiersAgree /\ DriversAgree

\* the unify half on its own: a returned call of either file on a
\* substitution binding constants returned what the other file returns
C21_UnifyAgreesOnConstants ==
    (UnifyReturned /\ BindsConstants(actuals.entry)) =>
        unify(OtherVariant, actuals.pattern, actuals.fact, actuals.entry) =
            IF ret = None THEN None ELSE << heap[ret[1]] >>

\* the driver half where no rule has a conclusion variable missing from
\* its premises and the initial facts are ground
C21_DriversAgreeOnSafeInputs == SafeInputs => DriversAgree

====
